---- MODULE Spec2Model ----
(***************************************************************************)
(* Model of src/validators.rs: the JSON Schema keyword evaluation engine.  *)
(* A JSON value is a record tagged by t; an object is the sequence of its  *)
(* <<key, value>> pairs in the map's iteration order.  A number keeps its  *)
(* serde_json encoding (enc: "u" = PosInt, "i" = NegInt, "f" = Float) and  *)
(* its value in halves (h = 2 * value), so 1 is h = 2 and 1.5 is h = 3.    *)
(***************************************************************************)
EXTENDS Integers, Sequences, FiniteSets, TLC

\* Longest array instance drawn as an input.
MaxLen == 2
\* Longest subschema list of anyOf / oneOf / allOf drawn as an input.
MaxBranches == 2
\* Most keywords of a flat schema drawn as an input.
MaxKeywords == 3

VARIABLES
  arg_instance,  \* the instance passed to the outermost run_validators
  arg_schema,    \* the schema passed to the outermost run_validators
  hashCollide,   \* whether HashSet probing compares elements of unequal hash
  pc,            \* position of the outermost run_validators call
  idx,           \* position of its `for (k, v) in schema_object.iter()` loop
  evaluated,     \* keywords whose validator the outermost loop has invoked
  result,        \* its returned ValidatorResult, once returned
  stdout         \* lines written to standard output so far

vars == <<arg_instance, arg_schema, hashCollide, pc, idx, evaluated, result, stdout>>

----------------------------------------------------------------------------
\* serde_json::Value

Null == [t |-> "null"]
Bool(b) == [t |-> "bool", b |-> b]
PosInt(n) == [t |-> "num", enc |-> "u", h |-> 2 * n]
NegInt(n) == [t |-> "num", enc |-> "i", h |-> 2 * n]
Float(halves) == [t |-> "num", enc |-> "f", h |-> halves]
Str(s) == [t |-> "str", s |-> s]
Arr(a) == [t |-> "arr", a |-> a]
Obj(o) == [t |-> "obj", o |-> o]

is_f64(number) == number.enc = "f"
is_u64(number) == number.enc = "u"
is_i64(number) == number.enc \in {"u", "i"}

Keys(o) == {o[i][1] : i \in DOMAIN o}
contains_key(o, k) == k \in Keys(o)
get(o, k) == o[CHOOSE i \in DOMAIN o : o[i][1] = k][2]

Abs(n) == IF n < 0 THEN 0 - n ELSE n
\* Rust's remainder: the sign of the dividend, b # 0.
Rem(a, b) == IF a < 0 THEN 0 - (Abs(a) % Abs(b)) ELSE a % Abs(b)

\* usize::to_string of a zero-based position
IndexString(i) == ToString(i - 1)

RECURSIVE ValueEq(_, _)
\* serde_json's PartialEq for Value: numbers are equal only within one
\* encoding; maps compare as key -> value maps.
ValueEq(x, y) ==
  IF x.t # y.t THEN FALSE
  ELSE CASE x.t = "arr" ->
              /\ Len(x.a) = Len(y.a)
              /\ \A i \in DOMAIN x.a : ValueEq(x.a[i], y.a[i])
         [] x.t = "obj" ->
              /\ Keys(x.o) = Keys(y.o)
              /\ \A k \in Keys(x.o) : ValueEq(get(x.o, k), get(y.o, k))
         [] x.t = "num" -> x.enc = y.enc /\ x.h = y.h
         [] OTHER -> x = y

----------------------------------------------------------------------------
\* ValidatorResult.  out holds the lines the call printed.

Ok == [kind |-> "ok", out |-> <<>>]
Err(msg) == [kind |-> "err", msg |-> msg, instance_path |-> <<>>,
             schema_path |-> <<>>, out |-> <<>>]
\* a panic (unwrap / expect / arithmetic fault) unwinding through the call
Abort == [kind |-> "panic", out |-> <<>>]

is_ok(r) == r.kind = "ok"
\* the lines printed before r's call, then r's own
After(out, r) == [r EXCEPT !.out = out \o @]

\* impl Debug for ValidationError: both paths are rendered reversed
RECURSIVE Rev(_)
Rev(s) == IF s = <<>> THEN <<>> ELSE Append(Rev(Tail(s)), Head(s))
RenderedInstancePath(err) == Rev(err.instance_path)
RenderedSchemaPath(err) == Rev(err.schema_path)

Registered ==
  {"patternProperties", "propertyNames", "additionalProperties", "items",
   "additionalItems", "const", "contains", "exclusiveMinimum",
   "exclusiveMaximum", "minimum", "maximum", "multipleOf", "minItems",
   "maxItems", "uniqueItems", "minLength", "maxLength", "dependencies",
   "enum", "type", "properties", "required", "minProperties",
   "maxProperties", "allOf", "anyOf", "oneOf", "not"}

----------------------------------------------------------------------------
\* Keyword rules that do not recurse into subschemas.  A message is the
\* tuple of its text fragments.

validate_const(instance, schema, parent_schema) ==
  IF ~ValueEq(instance, schema) THEN Err(<<"Invalid const">>) ELSE Ok

validate_enum(instance, schema, parent_schema) ==
  IF schema.t = "arr" /\ ~(\E i \in DOMAIN schema.a : ValueEq(schema.a[i], instance))
  THEN Err(<<"enum">>)
  ELSE Ok

validate_exclusiveMinimum(instance, schema, parent_schema) ==
  IF instance.t = "num" /\ schema.t = "num" /\ instance.h <= schema.h
  THEN Err(<<"exclusiveMinimum">>)
  ELSE Ok

validate_exclusiveMaximum(instance, schema, parent_schema) ==
  IF instance.t = "num" /\ schema.t = "num" /\ instance.h >= schema.h
  THEN Err(<<"exclusiveMaximum">>)
  ELSE Ok

validate_minimum(instance, schema, parent_schema) ==
  IF instance.t = "num" /\ schema.t = "num" /\ instance.h < schema.h
  THEN Err(<<"minimum">>)
  ELSE Ok

validate_maximum(instance, schema, parent_schema) ==
  IF instance.t = "num" /\ schema.t = "num" /\ instance.h > schema.h
  THEN Err(<<"maximum">>)
  ELSE Ok

\* quotient.trunc() != quotient for the f64 quotient of two values in halves:
\* x / 0.0 is infinite (equal to its trunc) unless x is 0.0 (NaN, unequal).
FloatQuotientFractional(a, b) ==
  IF b = 0 THEN a = 0 ELSE Abs(a) % Abs(b) # 0

validate_multipleOf(instance, schema, parent_schema) ==
  IF instance.t = "num" /\ schema.t = "num"
  THEN IF is_f64(schema)
       THEN IF FloatQuotientFractional(instance.h, schema.h)
            THEN Err(<<"not multipleOf">>) ELSE Ok
       ELSE IF is_u64(schema)
       THEN IF ~is_u64(instance) \/ schema.h = 0
            THEN Abort
            ELSE IF Rem(instance.h, schema.h) # 0
                 THEN Err(<<"not multipleOf">>) ELSE Ok
       ELSE IF ~is_i64(instance)
            THEN Abort
            ELSE IF Rem(instance.h, schema.h) # 0
                 THEN Err(<<"not multipleOf">>) ELSE Ok
  ELSE Ok

\* schema.as_u64().unwrap() as usize
as_u64_unwrap(number) == number.h \div 2

validate_minItems(instance, schema, parent_schema) ==
  IF instance.t = "arr" /\ schema.t = "num"
  THEN IF ~is_u64(schema) THEN Abort
       ELSE IF Len(instance.a) < as_u64_unwrap(schema)
            THEN Err(<<"minItems">>) ELSE Ok
  ELSE Ok

validate_maxItems(instance, schema, parent_schema) ==
  IF instance.t = "arr" /\ schema.t = "num"
  THEN IF ~is_u64(schema) THEN Abort
       ELSE IF Len(instance.a) > as_u64_unwrap(schema)
            THEN Err(<<"minItems">>) ELSE Ok
  ELSE Ok

validate_minLength(instance, schema, parent_schema) ==
  IF instance.t = "str" /\ schema.t = "num"
  THEN IF ~is_u64(schema) THEN Abort
       ELSE IF Len(instance.s) < as_u64_unwrap(schema)
            THEN Err(<<"minLength">>) ELSE Ok
  ELSE Ok

validate_maxLength(instance, schema, parent_schema) ==
  IF instance.t = "str" /\ schema.t = "num"
  THEN IF ~is_u64(schema) THEN Abort
       ELSE IF Len(instance.s) > as_u64_unwrap(schema)
            THEN Err(<<"maxLength">>) ELSE Ok
  ELSE Ok

validate_minProperties(instance, schema, parent_schema) ==
  IF instance.t = "obj" /\ schema.t = "num"
  THEN IF ~is_u64(schema) THEN Abort
       ELSE IF Len(instance.o) < as_u64_unwrap(schema)
            THEN Err(<<"minProperties">>) ELSE Ok
  ELSE Ok

validate_maxProperties(instance, schema, parent_schema) ==
  IF instance.t = "obj" /\ schema.t = "num"
  THEN IF ~is_u64(schema) THEN Abort
       ELSE IF Len(instance.o) > as_u64_unwrap(schema)
            THEN Err(<<"maxProperties">>) ELSE Ok
  ELSE Ok

RECURSIVE HashTokens(_)
\* impl Hash for ValueWrapper: the words fed to the hasher, in order.  An f64
\* is hashed by its bit pattern, which is that of the u64 0 only for 0.0.
HashTokens(x) ==
  CASE x.t = "arr" ->
         IF x.a = <<>> THEN <<>>
         ELSE HashTokens(x.a[1]) \o HashTokens(Arr(Tail(x.a)))
    [] x.t = "obj" ->
         IF x.o = <<>> THEN <<>>
         ELSE <<[w |-> "str", s |-> x.o[1][1]]>>
                \o HashTokens(x.o[1][2]) \o HashTokens(Obj(Tail(x.o)))
    [] x.t = "str" -> <<[w |-> "str", s |-> x.s]>>
    [] x.t = "num" ->
         IF is_f64(x) /\ x.h # 0
         THEN <<[w |-> "f64bits", h |-> x.h]>>
         ELSE <<[w |-> "int64", h |-> x.h]>>
    [] x.t = "bool" -> <<[w |-> "bool", b |-> x.b]>>
    [] OTHER -> <<[w |-> "int32", h |-> 0]>>

\* HashSet::insert finds an element already present when it is equal and the
\* probe reaches it: always for equal hashes, by collision for unequal ones.
has_unique_elements(a) ==
  \A j \in DOMAIN a :
    ~\E i \in 1..(j - 1) :
       /\ ValueEq(a[i], a[j])
       /\ (HashTokens(a[i]) = HashTokens(a[j]) \/ hashCollide)

validate_uniqueItems(instance, schema, parent_schema) ==
  IF instance.t = "arr" /\ schema.t = "bool"
  THEN IF schema.b /\ ~has_unique_elements(instance.a)
       THEN Err(<<"uniqueItems">>) ELSE Ok
  ELSE Ok

\* iter_or_once: the elements of an array, or the value itself
iter_or_once(x) == IF x.t = "arr" THEN x.a ELSE <<x>>

validate_single_type(instance, schema) ==
  IF schema.t = "str"
  THEN CASE schema.s = "array" ->
              IF instance.t = "arr" THEN Ok ELSE Err(<<"array">>)
         [] schema.s = "object" ->
              IF instance.t = "obj" THEN Ok ELSE Err(<<"object">>)
         [] schema.s = "null" ->
              IF instance.t = "null" THEN Ok ELSE Err(<<"null">>)
         [] schema.s = "number" ->
              IF instance.t = "num" THEN Ok ELSE Err(<<"number">>)
         [] schema.s = "string" ->
              IF instance.t = "str" THEN Ok ELSE Err(<<"string">>)
         [] schema.s = "integer" ->
              IF instance.t = "num" /\ (is_i64(instance) \/ is_u64(instance)
                   \/ (is_f64(instance) /\ instance.h % 2 = 0))
              THEN Ok ELSE Err(<<"integer">>)
         [] schema.s = "boolean" ->
              IF instance.t = "bool" THEN Ok ELSE Err(<<"boolean">>)
         [] OTHER -> Ok
  ELSE Ok

validate_type(instance, schema, parent_schema) ==
  LET types == iter_or_once(schema) IN
  IF ~(\E i \in DOMAIN types : is_ok(validate_single_type(instance, types[i])))
  THEN Err(<<"type">>)
  ELSE Ok

validate_required(instance, schema, parent_schema) ==
  IF instance.t = "obj" /\ schema.t = "arr"
  THEN LET missing == {i \in DOMAIN schema.a :
                         /\ schema.a[i].t = "str"
                         /\ ~contains_key(instance.o, schema.a[i].s)} IN
       IF missing # {}
       THEN LET first == CHOOSE i \in missing : \A j \in missing : i <= j IN
            Err(<<"required property '", schema.a[first].s, "' missing">>)
       ELSE Ok
  ELSE Ok

validate_oneOf(instance, schema, parent_schema) == Ok

----------------------------------------------------------------------------
\* Control flow shared by the rules' loops.  rs[i] is the outcome of the
\* i-th iteration, were it reached.

NotOk(rs) == {i \in DOMAIN rs : ~is_ok(rs[i])}
First(S) == CHOOSE i \in S : \A j \in S : i <= j

RECURSIVE OutUpTo(_, _)
\* what iterations 1..n printed
OutUpTo(rs, n) == IF n = 0 THEN <<>> ELSE OutUpTo(rs, n - 1) \o rs[n].out

\* a loop whose body ends in `?`: the first failing iteration returns
TryAll(rs) ==
  IF NotOk(rs) = {}
  THEN After(OutUpTo(rs, Cardinality(DOMAIN rs)), Ok)
  ELSE After(OutUpTo(rs, First(NotOk(rs)) - 1), rs[First(NotOk(rs))])

\* iter().any(is_ok) with short circuit, then Err(msg) if none; a panic of
\* an iteration reached before the first success unwinds
AnyOk(rs, msg) ==
  LET stop == {i \in DOMAIN rs : rs[i].kind # "err"} IN
  IF stop = {}
  THEN After(OutUpTo(rs, Cardinality(DOMAIN rs)), Err(msg))
  ELSE After(OutUpTo(rs, First(stop) - 1),
             IF is_ok(rs[First(stop)]) THEN After(rs[First(stop)].out, Ok)
             ELSE rs[First(stop)])

----------------------------------------------------------------------------
\* The regular-expression capability, over the patterns the inputs use: a
\* one-letter pattern matches the keys that contain the letter.

RegexNew(pattern) ==
  CASE pattern \in {"a", "b"} -> "ok"
    [] pattern = "(" -> "syntax"
    [] pattern = "a{1000000000}" -> "too_big"
    [] OTHER -> "other"

KeyLetters(k) ==
  CASE k = "a" -> {"a"}
    [] k = "b" -> {"b"}
    [] k = "ab" -> {"a", "b"}
    [] OTHER -> {}

is_match(pattern, k) == pattern \in KeyLetters(k)

get_regex(pattern) ==
  CASE RegexNew(pattern) = "ok" -> Ok
    [] RegexNew(pattern) = "syntax" -> Err(<<"regex parse error", pattern>>)
    [] RegexNew(pattern) = "too_big" -> Err(<<"regex too big">>)
    [] OTHER -> Err(<<"Unknown regular expression error">>)

----------------------------------------------------------------------------
\* Descent.  An Option<&String> is <<>> (None) or <<key>> (Some(key)).

RECURSIVE run_validators(_, _)
RECURSIVE is_valid(_, _)
RECURSIVE descend(_, _, _, _)
RECURSIVE validate_patternProperties(_, _, _)
RECURSIVE validate_propertyNames(_, _, _)
RECURSIVE validate_additionalProperties(_, _, _)
RECURSIVE validate_items(_, _, _)
RECURSIVE validate_additionalItems(_, _, _)
RECURSIVE validate_contains(_, _, _)
RECURSIVE validate_dependencies(_, _, _)
RECURSIVE validate_properties(_, _, _)
RECURSIVE validate_allOf(_, _, _)
RECURSIVE validate_anyOf(_, _, _)
RECURSIVE validate_not(_, _, _)
RECURSIVE validator(_, _, _, _)
RECURSIVE run_keyword(_, _, _)

is_valid(instance, schema) == is_ok(run_validators(instance, schema))

\* descend with each key inserted at the front of its path instead of pushed
descend_prepend(instance, schema, instance_key, schema_key) ==
  LET r == run_validators(instance, schema) IN
  IF r.kind = "err"
  THEN [r EXCEPT !.instance_path = instance_key \o @,
                 !.schema_path = schema_key \o @]
  ELSE r

descend(instance, schema, instance_key, schema_key) ==
  LET r == run_validators(instance, schema) IN
  IF r.kind = "err"
  THEN [r EXCEPT !.instance_path = @ \o instance_key,
                 !.schema_path = @ \o schema_key]
  ELSE r

empty_schema == Obj(<<>>)
inverse_schema == Obj(<< <<"not", Obj(<<>>)>> >>)

bool_to_object_schema(schema) ==
  IF schema.t = "bool"
  THEN IF schema.b THEN empty_schema ELSE inverse_schema
  ELSE schema

validate_patternProperties(instance, schema, parent_schema) ==
  IF instance.t = "obj" /\ schema.t = "obj"
  THEN TryAll([p \in DOMAIN schema.o |->
         LET pattern == schema.o[p][1]
             subschema == schema.o[p][2]
         IN IF ~is_ok(get_regex(pattern))
            THEN get_regex(pattern)
            ELSE TryAll([i \in DOMAIN instance.o |->
                   IF is_match(pattern, instance.o[i][1])
                   THEN descend(instance.o[i][2], subschema,
                                <<instance.o[i][1]>>, <<pattern>>)
                   ELSE Ok])])
  ELSE Ok

validate_propertyNames(instance, schema, parent_schema) ==
  IF instance.t = "obj"
  THEN TryAll([i \in DOMAIN instance.o |->
         descend(Str(instance.o[i][1]), schema, <<instance.o[i][1]>>, <<>>)])
  ELSE Ok

\* The uncovered keys in iteration order, or a panic: every pattern is
\* compiled with unwrap() before the first key is looked at.
find_additional_properties(instance, schema) ==
  LET properties == IF contains_key(schema, "properties")
                    THEN get(schema, "properties") ELSE Obj(<<>>)
      pattern_properties == IF contains_key(schema, "patternProperties")
                            THEN get(schema, "patternProperties") ELSE Obj(<<>>)
      uncovered(pair) ==
        /\ ~contains_key(properties.o, pair[1])
        /\ ~\E p \in DOMAIN pattern_properties.o :
               is_match(pattern_properties.o[p][1], pair[1])
  IN IF properties.t = "obj" /\ pattern_properties.t = "obj"
     THEN IF \E p \in DOMAIN pattern_properties.o :
                ~is_ok(get_regex(pattern_properties.o[p][1]))
          THEN [kind |-> "panic", pairs |-> <<>>]
          ELSE [kind |-> "ok", pairs |-> SelectSeq(instance, uncovered)]
     ELSE [kind |-> "ok", pairs |-> instance]

validate_additionalProperties(instance, schema, parent_schema) ==
  IF instance.t = "obj"
  THEN LET extras == find_additional_properties(instance.o, parent_schema) IN
       IF extras.kind = "panic" THEN Abort
       ELSE CASE schema.t = "obj" ->
                   TryAll([i \in DOMAIN extras.pairs |->
                     After(<< <<"extra", extras.pairs[i][1], "schema", schema>> >>,
                           descend(extras.pairs[i][2], schema,
                                   <<extras.pairs[i][1]>>, <<>>))])
              [] schema.t = "bool" ->
                   IF ~schema.b /\ extras.pairs # <<>>
                   THEN Err(<<"Additional properties are not allowed">>)
                   ELSE Ok
              [] OTHER -> Ok
  ELSE Ok

Min(a, b) == IF a < b THEN a ELSE b

validate_items(instance, schema, parent_schema) ==
  IF instance.t = "arr"
  THEN LET items == bool_to_object_schema(schema) IN
       CASE items.t = "obj" ->
              TryAll([i \in DOMAIN instance.a |->
                descend(instance.a[i], items, <<IndexString(i)>>, <<>>)])
         [] items.t = "arr" ->
              TryAll([i \in 1..Min(Len(instance.a), Len(items.a)) |->
                descend(instance.a[i], items.a[i],
                        <<IndexString(i)>>, <<IndexString(i)>>)])
         [] OTHER -> Ok
  ELSE Ok

validate_additionalItems(instance, schema, parent_schema) ==
  IF ~contains_key(parent_schema, "items") THEN Ok
  ELSE IF get(parent_schema, "items").t = "obj" THEN Ok
  ELSE IF instance.t = "arr"
  THEN LET len_items == IF get(parent_schema, "items").t = "arr"
                        THEN Len(get(parent_schema, "items").a) ELSE 0 IN
       CASE schema.t = "obj" ->
              TryAll([j \in 1..(Len(instance.a) - Min(len_items, Len(instance.a))) |->
                descend(instance.a[len_items + j], schema,
                        <<IndexString(len_items + j)>>, <<>>)])
         [] schema.t = "bool" ->
              IF ~schema.b /\ Len(instance.a) > len_items
              THEN Err(<<"Additional items are not allowed">>)
              ELSE Ok
         [] OTHER -> Ok
  ELSE Ok

validate_contains(instance, schema, parent_schema) ==
  IF instance.t = "arr"
  THEN AnyOk([i \in DOMAIN instance.a |-> run_validators(instance.a[i], schema)],
             <<"Nothing is valid under the given schema">>)
  ELSE Ok

validate_dependencies(instance, schema, parent_schema) ==
  IF instance.t = "obj" /\ schema.t = "obj"
  THEN TryAll([d \in DOMAIN schema.o |->
         LET property == schema.o[d][1]
             dep == bool_to_object_schema(schema.o[d][2])
         IN IF dep.t = "obj"
            THEN descend(instance, dep, <<>>, <<property>>)
            ELSE IF \E i \in DOMAIN iter_or_once(dep) :
                      /\ iter_or_once(dep)[i].t = "str"
                      /\ ~contains_key(instance.o, iter_or_once(dep)[i].s)
                 THEN Err(<<"dependency">>)
                 ELSE Ok])
  ELSE Ok

validate_properties(instance, schema, parent_schema) ==
  IF instance.t = "obj" /\ schema.t = "obj"
  THEN TryAll([p \in DOMAIN schema.o |->
         LET property == schema.o[p][1] IN
         IF contains_key(instance.o, property)
         THEN descend(get(instance.o, property), schema.o[p][2],
                      <<property>>, <<property>>)
         ELSE Ok])
  ELSE Ok

validate_allOf(instance, schema, parent_schema) ==
  IF schema.t = "arr"
  THEN TryAll([i \in DOMAIN schema.a |->
         descend(instance, bool_to_object_schema(schema.a[i]),
                 <<>>, <<IndexString(i)>>)])
  ELSE Ok

\* The loop body returns on both branches: only schema[0] is ever tried.
validate_anyOf(instance, schema, parent_schema) ==
  IF schema.t = "arr" /\ schema.a # <<>>
  THEN LET r == descend(instance, bool_to_object_schema(schema.a[1]),
                        <<>>, <<IndexString(1)>>) IN
       CASE r.kind = "ok" -> r
         [] r.kind = "err" -> After(r.out, Err(<<"anyOf">>))
         [] OTHER -> r
  ELSE Ok

validate_not(instance, schema, parent_schema) ==
  LET r == run_validators(instance, schema) IN
  CASE r.kind = "ok" -> After(r.out, Err(<<"not">>))
    [] r.kind = "err" -> After(r.out, Ok)
    [] OTHER -> r

\* get_validator(k) applied to its arguments, for a registered k
validator(k, instance, schema, parent_schema) ==
  CASE k = "patternProperties" -> validate_patternProperties(instance, schema, parent_schema)
    [] k = "propertyNames" -> validate_propertyNames(instance, schema, parent_schema)
    [] k = "additionalProperties" -> validate_additionalProperties(instance, schema, parent_schema)
    [] k = "items" -> validate_items(instance, schema, parent_schema)
    [] k = "additionalItems" -> validate_additionalItems(instance, schema, parent_schema)
    [] k = "const" -> validate_const(instance, schema, parent_schema)
    [] k = "contains" -> validate_contains(instance, schema, parent_schema)
    [] k = "exclusiveMinimum" -> validate_exclusiveMinimum(instance, schema, parent_schema)
    [] k = "exclusiveMaximum" -> validate_exclusiveMaximum(instance, schema, parent_schema)
    [] k = "minimum" -> validate_minimum(instance, schema, parent_schema)
    [] k = "maximum" -> validate_maximum(instance, schema, parent_schema)
    [] k = "multipleOf" -> validate_multipleOf(instance, schema, parent_schema)
    [] k = "minItems" -> validate_minItems(instance, schema, parent_schema)
    [] k = "maxItems" -> validate_maxItems(instance, schema, parent_schema)
    [] k = "uniqueItems" -> validate_uniqueItems(instance, schema, parent_schema)
    [] k = "minLength" -> validate_minLength(instance, schema, parent_schema)
    [] k = "maxLength" -> validate_maxLength(instance, schema, parent_schema)
    [] k = "dependencies" -> validate_dependencies(instance, schema, parent_schema)
    [] k = "enum" -> validate_enum(instance, schema, parent_schema)
    [] k = "type" -> validate_type(instance, schema, parent_schema)
    [] k = "properties" -> validate_properties(instance, schema, parent_schema)
    [] k = "required" -> validate_required(instance, schema, parent_schema)
    [] k = "minProperties" -> validate_minProperties(instance, schema, parent_schema)
    [] k = "maxProperties" -> validate_maxProperties(instance, schema, parent_schema)
    [] k = "allOf" -> validate_allOf(instance, schema, parent_schema)
    [] k = "anyOf" -> validate_anyOf(instance, schema, parent_schema)
    [] k = "oneOf" -> validate_oneOf(instance, schema, parent_schema)
    [] k = "not" -> validate_not(instance, schema, parent_schema)

get_validator(k) == IF k \in Registered THEN <<k>> ELSE <<>>

\* One iteration of `for (k, v) in schema_object.iter()`: the keyword's rule
\* if it has one, its name pushed onto the schema path of a failure.
run_keyword(instance, schema_object, i) ==
  LET k == schema_object[i][1]
      v == schema_object[i][2]
  IN IF get_validator(k) # <<>>
     THEN LET r == validator(k, instance, v, schema_object) IN
          IF r.kind = "err"
          THEN [r EXCEPT !.schema_path = Append(@, k)]
          ELSE r
     ELSE Ok

false_schema_result == Err(<<"False schema always fails">>)

run_validators(instance, schema) ==
  CASE schema.t = "bool" ->
         IF schema.b THEN Ok ELSE false_schema_result
    [] schema.t = "obj" ->
         IF contains_key(schema.o, "$ref")
         THEN Ok
         ELSE TryAll([i \in DOMAIN schema.o |-> run_keyword(instance, schema.o, i)])
    [] OTHER -> Err(<<"Invalid schema">>)

----------------------------------------------------------------------------
\* The inputs: (instance, schema) pairs, by family.

SeqsUpTo(S, n) == UNION {[1..k -> S] : k \in 0..n}
Pair(k, v) == <<k, v>>
Kw(k, v) == Obj(<<Pair(k, v)>>)

Scalars == {Null, PosInt(1), Float(2), PosInt(7), Str("x")}

ObjAB == Obj(<<Pair("a", PosInt(1)), Pair("b", PosInt(1))>>)
ObjBA == Obj(<<Pair("b", PosInt(1)), Pair("a", PosInt(1))>>)
ArrayElements == {PosInt(1), Float(2), Str("x"), ObjAB, ObjBA}
Arrays == {Arr(a) : a \in SeqsUpTo(ArrayElements, MaxLen)}

ObjectValues ==
  {PosInt(1), PosInt(7), Kw("a", PosInt(1)), Arr(<<PosInt(1), Str("x")>>)}
Objects ==
  {Obj(<<>>)}
  \cup {Kw(k, v) : k \in {"a", "b", "ab"}, v \in ObjectValues}
  \cup {Obj(<<Pair(ks[1], v), Pair(ks[2], w)>>) :
          ks \in {<<"a", "b">>, <<"b", "a">>}, v \in ObjectValues, w \in ObjectValues}

Instances == Scalars \cup Arrays \cup Objects

MinimumFive == Kw("minimum", PosInt(5))
TypeString == Kw("type", Str("string"))
TypeNumber == Kw("type", Str("number"))

TerminalSchemas ==
  {Bool(TRUE), Bool(FALSE), PosInt(1),
   Obj(<<Pair("$ref", Str("#")), Pair("minimum", PosInt(5))>>)}

Branches == {Bool(TRUE), Bool(FALSE), TypeString, MinimumFive}
CombinatorSchemas ==
  {Kw(k, Arr(a)) : k \in {"anyOf", "oneOf", "allOf"}, a \in SeqsUpTo(Branches, MaxBranches)}

KeywordPool ==
  {Pair("minimum", PosInt(5)), Pair("maximum", PosInt(3)),
   Pair("type", Str("string")), Pair("title", Str("t")),
   Pair("minLength", PosInt(2))}
FlatSchemas ==
  {Obj(o) : o \in {q \in SeqsUpTo(KeywordPool, MaxKeywords) :
                     \A i, j \in DOMAIN q : i # j => q[i][1] # q[j][1]}}

LeafSchemas == {MinimumFive, TypeString, Bool(FALSE), PosInt(1)}
InnerWrap(x) ==
  {Kw("properties", Kw("a", x)),
   Kw("items", x),
   Kw("additionalProperties", x)}
OuterWrap(x) ==
  InnerWrap(x) \cup
  {Kw("patternProperties", Kw("a", x)),
   Kw("items", Arr(<<Obj(<<>>), x>>)),
   Kw("allOf", Arr(<<Obj(<<>>), x>>)),
   Obj(<<Pair("items", Arr(<<Obj(<<>>)>>)), Pair("additionalItems", x)>>),
   Kw("propertyNames", x),
   Kw("dependencies", Kw("a", x)),
   Obj(<<Pair("properties", Obj(<<Pair("b", Obj(<<>>)), Pair("a", x)>>))>>)}
NestedSchemas ==
  UNION {OuterWrap(x) : x \in LeafSchemas}
  \cup UNION {OuterWrap(y) : y \in UNION {InnerWrap(x) : x \in LeafSchemas}}
NestedInstances ==
  {Kw("a", PosInt(1)), Kw("a", PosInt(7)), Kw("ab", PosInt(1)),
   Kw("a", Kw("a", PosInt(1))), Kw("a", Arr(<<PosInt(7), PosInt(1)>>)),
   Obj(<<Pair("b", PosInt(1)), Pair("a", Kw("a", PosInt(1)))>>),
   Arr(<<PosInt(1)>>), Arr(<<PosInt(7), PosInt(1)>>),
   Arr(<<Str("x"), Kw("a", PosInt(1))>>), Arr(<<Arr(<<PosInt(7), PosInt(1)>>)>>),
   PosInt(1)}

OptionalKw(k, vs) == {<<>>} \cup {<<Pair(k, v)>> : v \in vs}
ObjectSchemas ==
  {Obj(s) : s \in
     UNION {{p \o pp \o ap, ap \o p \o pp} :
       p \in OptionalKw("properties",
               {Kw("a", Obj(<<>>)), Kw("a", MinimumFive), PosInt(1)}),
       pp \in OptionalKw("patternProperties", {Kw("b", Obj(<<>>)), Kw("(", Obj(<<>>))}),
       ap \in OptionalKw("additionalProperties",
               {Bool(FALSE), Bool(TRUE), Obj(<<>>), MinimumFive})}}

ArraySchemas ==
  {Kw("uniqueItems", v) : v \in {Bool(TRUE), Bool(FALSE), PosInt(1)}}
  \cup {Obj(s) : s \in
     UNION {{it \o ai, ai \o it} :
       it \in OptionalKw("items",
               {Bool(TRUE), Bool(FALSE), Obj(<<>>), TypeNumber,
                Arr(<<TypeNumber>>), Arr(<<Obj(<<>>), Obj(<<>>)>>)}),
       ai \in {<<Pair("additionalItems", v)>> : v \in {Bool(FALSE), Bool(TRUE), TypeString}}}}

\* numbers of every encoding: 6, 7, 0, -6, 1.5, 6.0, -1.5
Numbers ==
  {PosInt(6), PosInt(7), PosInt(0), NegInt(-6), Float(3), Float(12), Float(-3)}
NumericValues ==
  {PosInt(3), PosInt(1), PosInt(0), NegInt(-3), NegInt(-1), Float(3), Float(6), Float(-2)}
SizeKeywords ==
  {"minItems", "maxItems", "minLength", "maxLength", "minProperties", "maxProperties"}
NumericSchemas ==
  {Kw(k, v) : k \in SizeKeywords \cup {"multipleOf"}, v \in NumericValues}
NumericInstances ==
  Numbers \cup {Str("x"), Arr(<<PosInt(1)>>), Arr(<<>>), ObjAB, Obj(<<>>)}

Inputs ==
  (Instances \X TerminalSchemas)
  \cup ((Scalars \cup {ObjAB}) \X CombinatorSchemas)
  \cup ((Scalars \cup {ObjAB}) \X FlatSchemas)
  \cup (NestedInstances \X NestedSchemas)
  \cup ((Objects \cup {PosInt(1)}) \X ObjectSchemas)
  \cup ((Arrays \cup {PosInt(1)}) \X ArraySchemas)
  \cup (NumericInstances \X NumericSchemas)

----------------------------------------------------------------------------
\* The outermost call of run_validators, one step per loop iteration.

NoResult == [kind |-> "none", out |-> <<>>]
Returned(r) == [r EXCEPT !.out = <<>>]

Init ==
  /\ \E in \in Inputs : arg_instance = in[1] /\ arg_schema = in[2]
  /\ hashCollide \in BOOLEAN
  /\ pc = "call"
  /\ idx = 1
  /\ evaluated = <<>>
  /\ result = NoResult
  /\ stdout = <<>>

\* MatchBool without the test of b
MatchBool_AlwaysOk ==
  /\ pc = "call"
  /\ arg_schema.t = "bool"
  /\ result' = Ok
  /\ pc' = "returned"
  /\ UNCHANGED <<arg_instance, arg_schema, hashCollide, idx, evaluated, stdout>>

\* Value::Bool(b) =>
MatchBool ==
  /\ pc = "call"
  /\ arg_schema.t = "bool"
  /\ result' = IF arg_schema.b THEN Ok ELSE false_schema_result
  /\ pc' = "returned"
  /\ UNCHANGED <<arg_instance, arg_schema, hashCollide, idx, evaluated, stdout>>

\* Value::Object(schema_object) with a "$ref" key
MatchRef ==
  /\ pc = "call"
  /\ arg_schema.t = "obj"
  /\ contains_key(arg_schema.o, "$ref")
  /\ result' = Ok
  /\ pc' = "returned"
  /\ UNCHANGED <<arg_instance, arg_schema, hashCollide, idx, evaluated, stdout>>

\* Value::Object(schema_object) without one: enter the loop
EnterLoop ==
  /\ pc = "call"
  /\ arg_schema.t = "obj"
  /\ ~contains_key(arg_schema.o, "$ref")
  /\ pc' = "loop"
  /\ UNCHANGED <<arg_instance, arg_schema, hashCollide, idx, evaluated, result, stdout>>

\* _ => Err("Invalid schema")
MatchOther ==
  /\ pc = "call"
  /\ arg_schema.t \notin {"bool", "obj"}
  /\ result' = Err(<<"Invalid schema">>)
  /\ pc' = "returned"
  /\ UNCHANGED <<arg_instance, arg_schema, hashCollide, idx, evaluated, stdout>>

\* an iteration whose key has no validator
SkipKeyword ==
  /\ pc = "loop"
  /\ idx \in DOMAIN arg_schema.o
  /\ get_validator(arg_schema.o[idx][1]) = <<>>
  /\ idx' = idx + 1
  /\ UNCHANGED <<arg_instance, arg_schema, hashCollide, pc, evaluated, result, stdout>>

\* CallValidator that records a failure and goes on to the next keyword
CallValidator_KeepGoing ==
  /\ pc = "loop"
  /\ idx \in DOMAIN arg_schema.o
  /\ get_validator(arg_schema.o[idx][1]) # <<>>
  /\ LET r == run_keyword(arg_instance, arg_schema.o, idx) IN
       /\ evaluated' = Append(evaluated, arg_schema.o[idx][1])
       /\ stdout' = stdout \o r.out
       /\ pc' = IF r.kind = "panic" THEN "aborted" ELSE "loop"
       /\ idx' = IF r.kind = "panic" THEN idx ELSE idx + 1
       /\ result' = IF r.kind = "err" THEN Returned(r) ELSE result
  /\ UNCHANGED <<arg_instance, arg_schema, hashCollide>>

\* an iteration whose key has one: the rule runs, and its failure returns
CallValidator ==
  /\ pc = "loop"
  /\ idx \in DOMAIN arg_schema.o
  /\ get_validator(arg_schema.o[idx][1]) # <<>>
  /\ LET r == run_keyword(arg_instance, arg_schema.o, idx) IN
       /\ evaluated' = Append(evaluated, arg_schema.o[idx][1])
       /\ stdout' = stdout \o r.out
       /\ pc' = CASE r.kind = "ok" -> "loop"
                  [] r.kind = "err" -> "returned"
                  [] OTHER -> "aborted"
       /\ idx' = IF r.kind = "ok" THEN idx + 1 ELSE idx
       /\ result' = IF r.kind = "err" THEN Returned(r) ELSE result
  /\ UNCHANGED <<arg_instance, arg_schema, hashCollide>>

\* the loop ran out of keywords
LoopEnd ==
  /\ pc = "loop"
  /\ idx \notin DOMAIN arg_schema.o
  /\ result' = Ok
  /\ pc' = "returned"
  /\ UNCHANGED <<arg_instance, arg_schema, hashCollide, idx, evaluated, stdout>>

Next ==
  \/ MatchBool
  \/ MatchRef
  \/ EnterLoop
  \/ MatchOther
  \/ SkipKeyword
  \/ CallValidator
  \/ LoopEnd

Spec == Init /\ [][Next]_vars

\* The stepped call returns what the recursive definition returns.
StepsAgree ==
  LET r == run_validators(arg_instance, arg_schema) IN
  /\ pc = "returned" => r.kind # "panic" /\ result = Returned(r) /\ stdout = r.out
  /\ pc = "aborted" => r.kind = "panic" /\ stdout = r.out

----------------------------------------------------------------------------
\* Vocabulary of the properties below.

HasReturned == pc = "returned"
Failed == pc = "returned" /\ result.kind = "err"
SchemaKeys == [i \in DOMAIN arg_schema.o |-> arg_schema.o[i][1]]
IsRegistered(k) == k \in Registered
\* the keyword whose rule the outermost loop invoked last
LastEvaluated == evaluated[Len(evaluated)]
OnlyKeyword(k) ==
  arg_schema.t = "obj" /\ Len(arg_schema.o) = 1 /\ arg_schema.o[1][1] = k
Accepting(instance, branches) ==
  {i \in DOMAIN branches : is_valid(instance, branches[i])}

\* C1: under a schema holding only a non-empty `anyOf`, validation succeeds
\* iff some subschema of the list, at any position, accepts the instance,
\* and a failure is the generic "anyOf" error.
C1_AnyOfIffSomeBranchAccepts ==
  (HasReturned /\ OnlyKeyword("anyOf") /\ arg_schema.o[1][2].t = "arr"
     /\ arg_schema.o[1][2].a # <<>>)
  => /\ is_ok(result) <=> Accepting(arg_instance, arg_schema.o[1][2].a) # {}
     /\ ~is_ok(result) => result.msg = <<"anyOf">>

\* C2: under a schema holding only `oneOf`, validation succeeds iff exactly
\* one subschema of the list accepts the instance.
C2_OneOfIffExactlyOneAccepts ==
  (HasReturned /\ OnlyKeyword("oneOf") /\ arg_schema.o[1][2].t = "arr")
  => (is_ok(result) <=>
        Cardinality(Accepting(arg_instance, arg_schema.o[1][2].a)) = 1)

\* C3: run_validators(I, true) is Ok and run_validators(I, false) is an error
\* with empty instance and schema paths, for every I; is_valid agrees.
C3_BooleanSchemas ==
  arg_schema.t = "bool" =>
    /\ pc # "aborted"
    /\ HasReturned =>
         IF arg_schema.b
         THEN result = Ok /\ is_valid(arg_instance, arg_schema)
         ELSE /\ result.kind = "err"
              /\ result.instance_path = <<>>
              /\ result.schema_path = <<>>
              /\ ~is_valid(arg_instance, arg_schema)

C3_Witness ==
  /\ HasReturned
  /\ arg_schema = Bool(FALSE)
  /\ arg_instance.t = "obj"
  /\ result.kind = "err"

----------------------------------------------------------------------------
\* C4.  FailsAt(instance, schema, ipath, spath, msg): walking the instance
\* along ipath and the schema along spath, both root to leaf, ends at an
\* instance node and a keyword (or a schema that is no schema) that fails
\* there, by itself, with msg.

SegmentIndex(a, seg) == {i \in DOMAIN a : IndexString(i) = seg}

FailsHere(instance, schema, k, msg) ==
  LET r == validator(k, instance, get(schema.o, k), schema.o) IN
  /\ k \in Registered
  /\ r.kind = "err"
  /\ r.msg = msg
  /\ r.instance_path = <<>>
  /\ r.schema_path = <<>>

RECURSIVE FailsAt(_, _, _, _, _)
FailsAt(instance, schema, ipath, spath, msg) ==
  IF spath = <<>>
  THEN /\ ipath = <<>>
       /\ \/ schema = Bool(FALSE) /\ msg = <<"False schema always fails">>
          \/ schema.t \notin {"bool", "obj"} /\ msg = <<"Invalid schema">>
  ELSE
    /\ schema.t = "obj"
    /\ contains_key(schema.o, Head(spath))
    /\ LET k == Head(spath)
           v == get(schema.o, k)
           rest == Tail(spath)
       IN
       \/ rest = <<>> /\ ipath = <<>> /\ FailsHere(instance, schema, k, msg)
       \/ /\ k = "properties"
          /\ rest # <<>> /\ ipath # <<>> /\ Head(ipath) = Head(rest)
          /\ instance.t = "obj" /\ v.t = "obj"
          /\ contains_key(instance.o, Head(ipath))
          /\ contains_key(v.o, Head(rest))
          /\ FailsAt(get(instance.o, Head(ipath)), get(v.o, Head(rest)),
                     Tail(ipath), Tail(rest), msg)
       \/ /\ k = "patternProperties"
          /\ rest # <<>> /\ ipath # <<>>
          /\ instance.t = "obj" /\ v.t = "obj"
          /\ contains_key(instance.o, Head(ipath))
          /\ contains_key(v.o, Head(rest))
          /\ is_match(Head(rest), Head(ipath))
          /\ FailsAt(get(instance.o, Head(ipath)), get(v.o, Head(rest)),
                     Tail(ipath), Tail(rest), msg)
       \/ /\ k = "items" /\ bool_to_object_schema(v).t = "obj"
          /\ ipath # <<>> /\ instance.t = "arr"
          /\ \E i \in SegmentIndex(instance.a, Head(ipath)) :
               FailsAt(instance.a[i], bool_to_object_schema(v), Tail(ipath), rest, msg)
       \/ /\ k = "items" /\ v.t = "arr"
          /\ rest # <<>> /\ ipath # <<>> /\ Head(ipath) = Head(rest)
          /\ instance.t = "arr"
          /\ \E i \in SegmentIndex(instance.a, Head(ipath)) :
               /\ i \in DOMAIN v.a
               /\ FailsAt(instance.a[i], v.a[i], Tail(ipath), Tail(rest), msg)
       \/ /\ k = "additionalProperties" /\ v.t = "obj"
          /\ ipath # <<>> /\ instance.t = "obj"
          /\ contains_key(instance.o, Head(ipath))
          /\ ~(contains_key(schema.o, "properties")
               /\ get(schema.o, "properties").t = "obj"
               /\ contains_key(get(schema.o, "properties").o, Head(ipath)))
          /\ FailsAt(get(instance.o, Head(ipath)), v, Tail(ipath), rest, msg)
       \/ /\ k = "additionalItems" /\ v.t = "obj"
          /\ ipath # <<>> /\ instance.t = "arr"
          /\ contains_key(schema.o, "items")
          /\ \E i \in SegmentIndex(instance.a, Head(ipath)) :
               /\ get(schema.o, "items").t = "arr" => i > Len(get(schema.o, "items").a)
               /\ FailsAt(instance.a[i], v, Tail(ipath), rest, msg)
       \/ /\ k = "allOf" /\ v.t = "arr"
          /\ rest # <<>>
          /\ \E i \in SegmentIndex(v.a, Head(rest)) :
               FailsAt(instance, bool_to_object_schema(v.a[i]), ipath, Tail(rest), msg)
       \/ /\ k = "propertyNames"
          /\ ipath # <<>> /\ instance.t = "obj"
          /\ contains_key(instance.o, Head(ipath))
          /\ FailsAt(Str(Head(ipath)), v, Tail(ipath), rest, msg)
       \/ /\ k = "dependencies" /\ v.t = "obj"
          /\ rest # <<>> /\ instance.t = "obj"
          /\ contains_key(v.o, Head(rest))
          /\ FailsAt(instance, bool_to_object_schema(get(v.o, Head(rest))),
                     ipath, Tail(rest), msg)

\* C4: the paths of a returned error, read in reverse, are the root-to-leaf
\* instance keys/indices and keyword names/schema keys traversed to the
\* failing node and keyword; {"properties":{"a":{"minimum":5}}} on {"a":1}
\* gives `a` and `properties/a/minimum`.
C4_ErrorPathsAreTheTraversal ==
  Failed =>
    /\ FailsAt(arg_instance, arg_schema, RenderedInstancePath(result),
               RenderedSchemaPath(result), result.msg)
    /\ (arg_schema = Kw("properties", Kw("a", MinimumFive))
          /\ arg_instance = Kw("a", PosInt(1)))
       => /\ RenderedInstancePath(result) = <<"a">>
          /\ RenderedSchemaPath(result) = <<"properties", "a", "minimum">>

C4_Witness ==
  /\ Failed
  /\ arg_schema = Kw("properties", Kw("a", Kw("items", MinimumFive)))
  /\ RenderedInstancePath(result) = <<"a", "1">>
  /\ RenderedSchemaPath(result) = <<"properties", "a", "items", "minimum">>

----------------------------------------------------------------------------
\* C5.

RECURSIVE RegisteredAmong(_, _)
\* the registered keys among the first n of ks, in order
RegisteredAmong(ks, n) ==
  IF n = 0 THEN <<>>
  ELSE IF IsRegistered(ks[n])
       THEN Append(RegisteredAmong(ks, n - 1), ks[n])
       ELSE RegisteredAmong(ks, n - 1)

RuleOutcome(i) ==
  validator(arg_schema.o[i][1], arg_instance, arg_schema.o[i][2], arg_schema.o)
RuleFails(i) == IsRegistered(SchemaKeys[i]) /\ RuleOutcome(i).kind = "err"
RulePasses(i) == IsRegistered(SchemaKeys[i]) => RuleOutcome(i).kind = "ok"

\* C5: for an object schema without `$ref`, the registered keywords are
\* evaluated in the schema's key order; a returned error is that of the first
\* keyword in the order whose rule fails, with that keyword's name pushed
\* onto its schema_path, and no later keyword is evaluated.
C5_FailFastInKeyOrder ==
  (arg_schema.t = "obj" /\ ~contains_key(arg_schema.o, "$ref")) =>
    /\ pc \in {"call", "loop"} =>
         /\ evaluated = RegisteredAmong(SchemaKeys, idx - 1)
         /\ \A j \in 1..(idx - 1) : RulePasses(j)
    /\ Failed =>
         /\ idx \in DOMAIN arg_schema.o
         /\ \A j \in 1..(idx - 1) : RulePasses(j)
         /\ RuleFails(idx)
         /\ result.msg = RuleOutcome(idx).msg
         /\ result.instance_path = RuleOutcome(idx).instance_path
         /\ result.schema_path = Append(RuleOutcome(idx).schema_path, SchemaKeys[idx])
         /\ evaluated = RegisteredAmong(SchemaKeys, idx)

C5_Witness ==
  /\ Failed
  /\ arg_schema.t = "obj"
  /\ ~contains_key(arg_schema.o, "$ref")
  /\ Len(arg_schema.o) = 3
  /\ idx = 2
  /\ IsRegistered(SchemaKeys[1])
  /\ RuleFails(3)
  /\ evaluated = <<SchemaKeys[1], SchemaKeys[2]>>

----------------------------------------------------------------------------
\* C6 - C10.

HasMalformedPattern ==
  /\ arg_schema.t = "obj"
  /\ contains_key(arg_schema.o, "patternProperties")
  /\ get(arg_schema.o, "patternProperties").t = "obj"
  /\ \E k \in Keys(get(arg_schema.o, "patternProperties").o) : RegexNew(k) # "ok"

\* C6: for an object instance and a schema whose `patternProperties` has a
\* key that does not compile, run_validators returns a ValidationError and
\* never aborts, also when the schema carries `additionalProperties`.
C6_MalformedPatternIsAnError ==
  (arg_instance.t = "obj" /\ HasMalformedPattern) =>
    /\ pc # "aborted"
    /\ HasReturned => result.kind = "err"

\* the instance keys that are neither a key of `properties` nor matched by
\* a pattern of `patternProperties`
UncoveredKeys ==
  {k \in Keys(arg_instance.o) :
     /\ ~(contains_key(arg_schema.o, "properties")
          /\ get(arg_schema.o, "properties").t = "obj"
          /\ contains_key(get(arg_schema.o, "properties").o, k))
     /\ ~(contains_key(arg_schema.o, "patternProperties")
          /\ get(arg_schema.o, "patternProperties").t = "obj"
          /\ \E p \in Keys(get(arg_schema.o, "patternProperties").o) :
               RegexNew(p) = "ok" /\ is_match(p, k))}

\* err names key k: in its message or as a segment of its instance path
Reports(err, k) ==
  \/ \E i \in DOMAIN err.msg : err.msg[i] = k
  \/ \E i \in DOMAIN err.instance_path : err.instance_path[i] = k

\* the `additionalProperties: false` rule has just run on an object, under a
\* schema whose `properties` is an object and whose patterns all compile
AdditionalPropertiesFalseRan ==
  /\ arg_instance.t = "obj"
  /\ arg_schema.t = "obj"
  /\ evaluated # <<>>
  /\ LastEvaluated = "additionalProperties"
  /\ get(arg_schema.o, "additionalProperties") = Bool(FALSE)
  /\ contains_key(arg_schema.o, "properties") => get(arg_schema.o, "properties").t = "obj"
  /\ ~HasMalformedPattern

\* C7: with `additionalProperties: false` on an object, validation fails iff
\* some instance key is neither a key of `properties` nor matched by a
\* pattern of `patternProperties`, and the error reports such a key.
C7_AdditionalPropertiesFalse ==
  AdditionalPropertiesFalseRan =>
    /\ Failed <=> UncoveredKeys # {}
    /\ Failed => \E k \in UncoveredKeys : Reports(result, k)

RECURSIVE StructurallyEqual(_, _)
\* equality that unifies the encodings of one number and ignores key order
StructurallyEqual(x, y) ==
  IF x.t # y.t THEN FALSE
  ELSE CASE x.t = "arr" ->
              /\ Len(x.a) = Len(y.a)
              /\ \A i \in DOMAIN x.a : StructurallyEqual(x.a[i], y.a[i])
         [] x.t = "obj" ->
              /\ Keys(x.o) = Keys(y.o)
              /\ \A k \in Keys(x.o) : StructurallyEqual(get(x.o, k), get(y.o, k))
         [] x.t = "num" -> x.h = y.h
         [] OTHER -> x = y

\* C8: under `uniqueItems: true` an array fails iff two elements at distinct
\* positions are structurally equal (1 and 1.0 are; so are objects with the
\* same pairs in another key order), and structurally equal elements hash
\* equally.
C8_UniqueItemsStructural ==
  (HasReturned /\ arg_schema = Kw("uniqueItems", Bool(TRUE)) /\ arg_instance.t = "arr")
  => /\ Failed <=> \E i, j \in DOMAIN arg_instance.a :
                     i # j /\ StructurallyEqual(arg_instance.a[i], arg_instance.a[j])
     /\ \A i, j \in DOMAIN arg_instance.a :
          StructurallyEqual(arg_instance.a[i], arg_instance.a[j])
          => HashTokens(arg_instance.a[i]) = HashTokens(arg_instance.a[j])

\* C9: a call of run_validators writes nothing to standard output.
C9_NoOutput == stdout = <<>>

\* the `additionalItems` rule has just run on an array
AdditionalItemsRan ==
  /\ arg_instance.t = "arr"
  /\ arg_schema.t = "obj"
  /\ evaluated # <<>>
  /\ LastEvaluated = "additionalItems"

ItemsValue == get(arg_schema.o, "items")
AdditionalItemsValue == get(arg_schema.o, "additionalItems")

\* C10: `additionalItems` succeeds when the schema has no `items` or `items`
\* is a single schema (an object or a boolean); when `items` is an array of
\* length k, `additionalItems: false` fails exactly the instances longer
\* than k, and an object `additionalItems` is applied to exactly the
\* elements at index >= k.
C10_AdditionalItemsOnlyUnderTuple ==
  AdditionalItemsRan =>
    IF ~contains_key(arg_schema.o, "items") \/ ItemsValue.t # "arr"
    THEN ~Failed
    ELSE CASE AdditionalItemsValue.t = "bool" ->
                Failed <=> (~AdditionalItemsValue.b
                            /\ Len(arg_instance.a) > Len(ItemsValue.a))
           [] AdditionalItemsValue.t = "obj" ->
                Failed <=> \E i \in DOMAIN arg_instance.a :
                             /\ i > Len(ItemsValue.a)
                             /\ ~is_valid(arg_instance.a[i], AdditionalItemsValue)
           [] OTHER -> ~Failed

----------------------------------------------------------------------------
\* C11.

KeywordValue == arg_schema.o[1][2]
IsInteger(number) == number.enc \in {"u", "i"}
\* the instance is an integer number of times the divisor (both in halves)
IntegerMultiple(number, divisor) == Abs(number.h) % Abs(divisor.h) = 0

\* the rule of the schema's only keyword, a numeric rule with a numeric
\* value, applies to the instance
MultipleOfApplies ==
  /\ OnlyKeyword("multipleOf")
  /\ KeywordValue.t = "num"
  /\ KeywordValue.h # 0
  /\ arg_instance.t = "num"
SizeRuleApplies ==
  /\ arg_schema.t = "obj"
  /\ Len(arg_schema.o) = 1
  /\ arg_schema.o[1][1] \in SizeKeywords
  /\ KeywordValue.t = "num"

\* C11: for every numeric instance and nonzero numeric value, multipleOf
\* returns Ok or a ValidationError and never aborts, and with an integer
\* divisor it returns Ok exactly when the instance is an integer multiple of
\* it; minItems / maxItems / minLength / maxLength / minProperties /
\* maxProperties return a result for every numeric value, negative and
\* fractional ones included.
C11_NumericRulesAreTotal ==
  /\ MultipleOfApplies =>
       /\ pc # "aborted"
       /\ (HasReturned /\ IsInteger(KeywordValue)) =>
            (is_ok(result) <=> IntegerMultiple(arg_instance, KeywordValue))
  /\ SizeRuleApplies => pc # "aborted"

====
